---- MODULE Spec2Model ----
(***************************************************************************)
(* py-caskdb: a BitCask-style key-value store.                             *)
(*   format.py      the record codec (12-byte header, key bytes, value     *)
(*                  bytes)                                                  *)
(*   disk_store.py  DiskStorage: an append-only log file and the in-memory *)
(*                  KeyDir (key -> byte offset of its latest record)       *)
(* A str is modelled as the sequence of its code points, bytes as a        *)
(* sequence of 0..255.                                                     *)
(***************************************************************************)
EXTENDS Integers, Sequences, FiniteSets, TLC

VARIABLES
    exists,     \* os.path.exists(file_name)
    file,       \* the bytes of the log file
    status,     \* per DiskStorage instance: uninit, ready, closed, failed, dead
    mapping,    \* per instance: self.mapping (KeyDir)
    wpos,       \* per instance: position of self.writer (what tell() returns)
    last,       \* the last call: its instance, what it returned, the key it read or wrote
    log,        \* history: the records completely written by set, in order, each
                \* with its offset in the file and the instances open at the time
    torn,       \* history: the partial writes left by a crash inside set
    cpc,        \* codec run: position (in, encoded, decoded; off outside it)
    cin,        \* codec run: the (timestamp, key, value) given to encode_kv
    cbuf,       \* codec run: what encode_kv returned
    cout        \* codec run: what decode_kv returned

vars == <<exists, file, status, mapping, wpos, last, log, torn, cpc, cin, cbuf, cout>>

-----------------------------------------------------------------------------
(* Bounds *)

MaxEngines == 3
MaxSets == 2
MaxCrashes == 1
MaxStrLen == 2

HEADER_SIZE == 12

Engines == 1..MaxEngines

\* "", e-acute (2 bytes in UTF-8)
Keys == {<<>>, <<233>>}
\* "", the euro sign (3 bytes in UTF-8)
Values == {<<>>, <<8364>>}
\* what int(datetime.now().timestamp()) returns: the epoch second, negative
\* when the clock stands before 1970 (and then no record can be encoded). The
\* engine never reads a timestamp back; CodecSpec runs the codec on other
\* timestamps.
Clock == {0, -1}

\* code points of 1, 2, 3 and 4 UTF-8 bytes
CodePoints == {97, 233, 8364, 128512}
\* 2147483647 = 2^31 - 1, the largest integer TLC represents
Timestamps == {0, 1, 255, 256, 16909060, 2147483647}

-----------------------------------------------------------------------------
(* bytes and str *)

Min(a, b) == IF a < b THEN a ELSE b

IsPrefix(s, t) == Len(s) <= Len(t) /\ SubSeq(t, 1, Len(s)) = s

EmptyMap == [x \in {} |-> 0]

\* the bug of dict.setdefault: a key already present keeps its old value
MapPutKeep(m, k, v) ==
    [x \in DOMAIN m \cup {k} |-> IF x \in DOMAIN m THEN m[x] ELSE v]

\* m[k] = v of a dict
MapPut(m, k, v) == [x \in DOMAIN m \cup {k} |-> IF x = k THEN v ELSE m[x]]

\* str.encode("utf-8") of one code point
Utf8EncodeCp(c) ==
    IF c < 128 THEN <<c>>
    ELSE IF c < 2048 THEN <<192 + (c \div 64), 128 + (c % 64)>>
    ELSE IF c < 65536
         THEN <<224 + (c \div 4096), 128 + ((c \div 64) % 64), 128 + (c % 64)>>
         ELSE <<240 + (c \div 262144), 128 + ((c \div 4096) % 64),
                128 + ((c \div 64) % 64), 128 + (c % 64)>>

RECURSIVE Utf8Encode(_)
Utf8Encode(s) ==
    IF s = <<>> THEN <<>> ELSE Utf8EncodeCp(Head(s)) \o Utf8Encode(Tail(s))

\* length of the UTF-8 sequence a lead byte starts, 0 for an invalid lead
Utf8SeqLen(b) ==
    IF b < 128 THEN 1
    ELSE IF b >= 194 /\ b <= 223 THEN 2
    ELSE IF b >= 224 /\ b <= 239 THEN 3
    ELSE IF b >= 240 /\ b <= 244 THEN 4
    ELSE 0

IsCont(b) == b >= 128 /\ b <= 191

\* the bytes after the lead are continuation bytes, and the sequence is neither
\* overlong, nor a surrogate, nor above U+10FFFF
Utf8TailOk(d, i, n) ==
    /\ \A j \in 1..(n - 1) : IsCont(d[i + j])
    /\ (d[i] = 224 => d[i + 1] >= 160)
    /\ (d[i] = 237 => d[i + 1] <= 159)
    /\ (d[i] = 240 => d[i + 1] >= 144)
    /\ (d[i] = 244 => d[i + 1] <= 143)

Utf8Cp(d, i, n) ==
    IF n = 1 THEN d[i]
    ELSE IF n = 2 THEN (d[i] - 192) * 64 + (d[i + 1] - 128)
    ELSE IF n = 3
         THEN (d[i] - 224) * 4096 + (d[i + 1] - 128) * 64 + (d[i + 2] - 128)
         ELSE (d[i] - 240) * 262144 + (d[i + 1] - 128) * 4096
              + (d[i + 2] - 128) * 64 + (d[i + 3] - 128)

RECURSIVE Utf8DecodeFrom(_, _, _)
Utf8DecodeFrom(d, i, acc) ==
    IF i > Len(d) THEN [ok |-> TRUE, s |-> acc]
    ELSE LET n == Utf8SeqLen(d[i]) IN
         IF n = 0 \/ i + n - 1 > Len(d) THEN [ok |-> FALSE, s |-> <<>>]
         ELSE IF ~Utf8TailOk(d, i, n) THEN [ok |-> FALSE, s |-> <<>>]
         ELSE Utf8DecodeFrom(d, i + n, Append(acc, Utf8Cp(d, i, n)))

\* bytes.decode("utf-8"): ok = FALSE is UnicodeDecodeError
Utf8Decode(d) == Utf8DecodeFrom(d, 1, <<>>)

-----------------------------------------------------------------------------
(* format.py *)

\* the range of a struct "I" field: 0 .. 2^32 - 1
InU32(x) == x >= 0 /\ x \div 65536 < 65536

\* the bug of HEADER_FORMAT = "<III" on the packing side: little-endian
pack_u32_le(x) ==
    <<x % 256, (x \div 256) % 256, (x \div 65536) % 256, (x \div 16777216) % 256>>

\* one "I" of HEADER_FORMAT = "!III": big-endian unsigned 32 bit
pack_u32(x) ==
    <<(x \div 16777216) % 256, (x \div 65536) % 256, (x \div 256) % 256, x % 256>>

\* TLC's integers end at 2^31 - 1. A field of 2^31 or more reads as
\* U32Cap and a sum of sizes stops at U32Cap; every buffer of the model is far
\* shorter, so a read(n) or a comparison of lengths with such a value has the
\* outcome it has with the exact one.
U32Cap == 2147483647

unpack_u32(d, i) ==
    IF d[i] >= 128 THEN U32Cap
    ELSE ((d[i] * 256 + d[i + 1]) * 256 + d[i + 2]) * 256 + d[i + 3]

\* a + b of two sizes
SizeSum(a, b) == IF a >= U32Cap - b THEN U32Cap ELSE a + b

\* the bug of packing without the range test: the field is the value modulo
\* 2^32, as C's conversion to uint32_t gives
encode_header_wrap(timestamp, key_size, value_size) ==
    [ok |-> TRUE,
     buf |-> pack_u32(timestamp) \o pack_u32(key_size) \o pack_u32(value_size)]

\* struct.pack(HEADER_FORMAT, ...): ok = FALSE is struct.error
encode_header(timestamp, key_size, value_size) ==
    IF InU32(timestamp) /\ InU32(key_size) /\ InU32(value_size)
    THEN [ok |-> TRUE,
          buf |-> pack_u32(timestamp) \o pack_u32(key_size) \o pack_u32(value_size)]
    ELSE [ok |-> FALSE, buf |-> <<>>]

\* the bug of taking the sizes from the str, len(key) and len(value): code
\* points, not bytes
encode_kv_charlen(timestamp, key, value) ==
    LET key_bytes == Utf8Encode(key)
        value_bytes == Utf8Encode(value)
        header == encode_header(timestamp, Len(key), Len(value))
        result == header.buf \o key_bytes \o value_bytes
    IN IF header.ok
       THEN [ok |-> TRUE, size |-> Len(result), buf |-> result]
       ELSE [ok |-> FALSE, size |-> 0, buf |-> <<>>]

encode_kv(timestamp, key, value) ==
    LET key_bytes == Utf8Encode(key)
        value_bytes == Utf8Encode(value)
        header == encode_header(timestamp, Len(key_bytes), Len(value_bytes))
        result == header.buf \o key_bytes \o value_bytes
    IN IF header.ok
       THEN [ok |-> TRUE, size |-> Len(result), buf |-> result]
       ELSE [ok |-> FALSE, size |-> 0, buf |-> <<>>]

\* struct.unpack(HEADER_FORMAT, data): ok = FALSE is struct.error
decode_header(data) ==
    IF Len(data) = HEADER_SIZE
    THEN [ok |-> TRUE, timestamp |-> unpack_u32(data, 1),
          key_size |-> unpack_u32(data, 5), value_size |-> unpack_u32(data, 9)]
    ELSE [ok |-> FALSE, timestamp |-> 0, key_size |-> 0, value_size |-> 0]

DecodeError == [ok |-> FALSE, timestamp |-> 0, key |-> <<>>, value |-> <<>>]

\* the bug of a decode_kv that slices without asserting the buffer's length
decode_kv_unchecked(data) ==
    LET key_start == 3 * 4 IN
    IF ~(Len(data) >= key_start) THEN DecodeError
    ELSE LET h == decode_header(SubSeq(data, 1, key_start))
             value_start == Min(SizeSum(key_start, h.key_size), Len(data))
             value_end == Min(SizeSum(value_start, h.value_size), Len(data))
             key == Utf8Decode(SubSeq(data, key_start + 1, value_start))
             value == Utf8Decode(SubSeq(data, value_start + 1, value_end))
         IN IF key.ok /\ value.ok
            THEN [ok |-> TRUE, timestamp |-> h.timestamp,
                  key |-> key.s, value |-> value.s]
            ELSE DecodeError

\* the bug of asserting len(data) >= value_start + value_size: bytes after the
\* declared end are accepted and ignored
decode_kv_atleast(data) ==
    LET key_start == 3 * 4 IN
    IF ~(Len(data) >= key_start) THEN DecodeError
    ELSE LET h == decode_header(SubSeq(data, 1, key_start))
             value_start == SizeSum(key_start, h.key_size)
         IN IF ~(Len(data) >= SizeSum(value_start, h.value_size)) THEN DecodeError
            ELSE LET key == Utf8Decode(SubSeq(data, key_start + 1, value_start))
                     value == Utf8Decode(SubSeq(data, value_start + 1,
                                                value_start + h.value_size))
                 IN IF key.ok /\ value.ok
                    THEN [ok |-> TRUE, timestamp |-> h.timestamp,
                          key |-> key.s, value |-> value.s]
                    ELSE DecodeError

\* ok = FALSE is AssertionError or UnicodeDecodeError
decode_kv(data) ==
    LET key_start == 3 * 4 IN
    IF ~(Len(data) >= key_start) THEN DecodeError
    ELSE LET h == decode_header(SubSeq(data, 1, key_start))
             value_start == SizeSum(key_start, h.key_size)
         IN IF ~(Len(data) = SizeSum(value_start, h.value_size)) THEN DecodeError
            ELSE LET key == Utf8Decode(SubSeq(data, key_start + 1, value_start))
                     value == Utf8Decode(SubSeq(data, value_start + 1,
                                                value_start + h.value_size))
                 IN IF key.ok /\ value.ok
                    THEN [ok |-> TRUE, timestamp |-> h.timestamp,
                          key |-> key.s, value |-> value.s]
                    ELSE DecodeError

-----------------------------------------------------------------------------
(* disk_store.py *)

\* a_file.read(n) at position pos: the bytes present, at most n of them
read(f, pos, n) ==
    IF pos >= Len(f) THEN <<>>
    ELSE IF n >= Len(f) - pos THEN SubSeq(f, pos + 1, Len(f))
    ELSE SubSeq(f, pos + 1, pos + n)

NoHeader ==
    [none |-> TRUE, header_buf |-> <<>>, timestamp |-> 0, key_size |-> 0,
     value_size |-> 0]

\* the bug of returning None at end-of-file only: a short header goes on to
\* decode_header, whose struct.error shows as sizes no buffer satisfies
read_serialised_header_eof(f, pos) ==
    LET header_buf == read(f, pos, 12) IN
    IF Len(header_buf) = 0 THEN NoHeader
    ELSE LET h == decode_header(header_buf) IN
         [none |-> FALSE, header_buf |-> header_buf, timestamp |-> h.timestamp,
          key_size |-> h.key_size, value_size |-> h.value_size]

\* none = TRUE is the return of None
read_serialised_header(f, pos) ==
    LET header_buf == read(f, pos, 12) IN
    IF Len(header_buf) < 12 THEN NoHeader
    ELSE LET h == decode_header(header_buf) IN
         [none |-> FALSE, header_buf |-> header_buf, timestamp |-> h.timestamp,
          key_size |-> h.key_size, value_size |-> h.value_size]

\* the bug of counting only the header read: the next record is looked for
\* inside the body
tell_after_header(offset, header_buf, tail_buf) == offset + Len(header_buf)

\* a_file.tell() after the header at offset and the body have been read
tell_after(offset, header_buf, tail_buf) == offset + Len(header_buf) + Len(tail_buf)

\* the loop of _load_existing from a_file.tell() = offset, with self.mapping = m;
\* ok = FALSE is the exception decode_kv raised
RECURSIVE load_from(_, _, _)
load_from(f, offset, m) ==
    LET header == read_serialised_header(f, offset) IN
    IF header.none THEN [ok |-> TRUE, mapping |-> m]
    ELSE LET tail_buf == read(f, offset + 12, SizeSum(header.key_size, header.value_size))
             kv == decode_kv(header.header_buf \o tail_buf)
         IN IF ~kv.ok THEN [ok |-> FALSE, mapping |-> m]
            ELSE load_from(f, tell_after(offset, header.header_buf, tail_buf),
                           MapPut(m, kv.key, offset))

load_existing(f) == load_from(f, 0, EmptyMap)

\* the bug of indexing the dict without the membership test: KeyError
get_keyerror(m, f, key) ==
    IF key \notin DOMAIN m THEN [ok |-> FALSE, val |-> <<>>]
    ELSE LET offset == m[key]
             header == read_serialised_header(f, offset)
         IN IF header.none THEN [ok |-> FALSE, val |-> <<>>]
            ELSE LET tail_buf == read(f, offset + 12,
                                      SizeSum(header.key_size, header.value_size))
                     kv == decode_kv(header.header_buf \o tail_buf)
                 IN [ok |-> kv.ok, val |-> kv.value]

\* the bug of answering "" when no header can be read at the offset, as for a
\* missing key
get_lenient(m, f, key) ==
    IF key \notin DOMAIN m THEN [ok |-> TRUE, val |-> <<>>]
    ELSE LET offset == m[key]
             header == read_serialised_header(f, offset)
         IN IF header.none THEN [ok |-> TRUE, val |-> <<>>]
            ELSE LET tail_buf == read(f, offset + 12,
                                      SizeSum(header.key_size, header.value_size))
                     kv == decode_kv(header.header_buf \o tail_buf)
                 IN IF kv.ok THEN [ok |-> TRUE, val |-> kv.value]
                    ELSE [ok |-> FALSE, val |-> <<>>]

\* the body of DiskStorage.get: ok = FALSE is an AssertionError or a
\* UnicodeDecodeError
get(m, f, key) ==
    IF key \notin DOMAIN m THEN [ok |-> TRUE, val |-> <<>>]
    ELSE LET offset == m[key]
             header == read_serialised_header(f, offset)
         IN IF header.none THEN [ok |-> FALSE, val |-> <<>>]
            ELSE LET tail_buf == read(f, offset + 12,
                                      SizeSum(header.key_size, header.value_size))
                     kv == decode_kv(header.header_buf \o tail_buf)
                 IN IF kv.ok THEN [ok |-> TRUE, val |-> kv.value]
                    ELSE [ok |-> FALSE, val |-> <<>>]

\* the bug of a writer opened "r+b" and never moved to the end: the bytes
\* overwrite the start of the file
writer_write_inplace(f, buf) ==
    IF Len(buf) >= Len(f) THEN buf ELSE buf \o SubSeq(f, Len(buf) + 1, Len(f))

\* self.writer.write(buf); self.writer.flush() on a file opened "ab": the bytes go
\* to the end of the file, wherever the writer's position was
writer_write(f, buf) == f \o buf

Call(op, e, key, ok, val) ==
    [op |-> op, e |-> e, key |-> key, ok |-> ok, val |-> val]

codecVars == <<cpc, cin, cbuf, cout>>

\* the bug of a writer opened lazily, by the first set: __init__ leaves an
\* absent file absent
open_lazy(ex) == ex

\* open(file_name, "ab"): the file exists afterwards, created empty if it was
\* absent
open_ab(ex) == TRUE

\* DiskStorage(file_name): instances are numbered in the order they are made
Open(e) ==
    /\ status[e] = "uninit"
    /\ e > 1 => status[e - 1] # "uninit"
    /\ LET r == IF exists THEN load_existing(file)
                ELSE [ok |-> TRUE, mapping |-> EmptyMap]
       IN IF r.ok
          THEN /\ mapping' = [mapping EXCEPT ![e] = r.mapping]
               /\ exists' = open_ab(exists)
               /\ wpos' = [wpos EXCEPT ![e] = Len(file)]
               /\ status' = [status EXCEPT ![e] = "ready"]
               /\ last' = Call("open", e, <<>>, TRUE, <<>>)
          ELSE /\ status' = [status EXCEPT ![e] = "failed"]
               /\ last' = Call("open", e, <<>>, FALSE, <<>>)
               /\ UNCHANGED <<mapping, exists, wpos>>
    /\ UNCHANGED <<file, log, torn, codecVars>>

\* the bug of a tell() that answers the length of the file (as after a seek to
\* the end before every write)
writer_tell_end(pos, f) == Len(f)

\* self.writer.tell(): the position of this writer, which only its own writes
\* (and the seek of __init__) move
writer_tell(pos, f) == pos

\* the bug of a set that opens the writer again when it finds it closed
writer_open_again(st) == st \in {"ready", "closed"}

\* self.writer.tell() and write() work on an open file; on a closed one they
\* raise ValueError
writer_open(st) == st = "ready"

\* DiskStorage.set(key, value) at wall-clock time timestamp
Set(e, key, value, timestamp) ==
    /\ status[e] \in {"ready", "closed"}
    /\ LET enc == encode_kv(timestamp, key, value) IN
       IF ~enc.ok \/ ~writer_open(status[e])
       THEN \* struct.error, or ValueError: tell() of a closed file
            /\ last' = Call("set", e, <<>>, FALSE, <<>>)
            /\ UNCHANGED <<file, mapping, wpos, log>>
       ELSE /\ Len(log) < MaxSets
            /\ LET offset == writer_tell(wpos[e], file) IN
               /\ file' = writer_write(file, enc.buf)
               /\ wpos' = [wpos EXCEPT ![e] = Len(file')]
               /\ mapping' = [mapping EXCEPT ![e] = MapPut(mapping[e], key, offset)]
            /\ log' = Append(log, [e |-> e, off |-> Len(file), timestamp |-> timestamp,
                                   key |-> key, value |-> value,
                                   open |-> {o \in Engines : status[o] = "ready"}])
            /\ last' = Call("set", e, key, TRUE, value)
    /\ UNCHANGED <<exists, status, torn, codecVars>>

\* the bug of a get that reads through self.writer (opened "a+b") instead of a
\* handle of its own: the seek and the reads move the writer's position
Get_shared_handle(e, key) ==
    /\ status[e] \in {"ready", "closed"}
    /\ LET r == get(mapping[e], file, key) IN
       last' = Call("get", e, key, r.ok, r.val)
    /\ wpos' = [wpos EXCEPT ![e] =
                   IF key \in DOMAIN mapping[e]
                   THEN LET h == read_serialised_header(file, mapping[e][key]) IN
                        IF h.none THEN Len(file)
                        ELSE Min(Len(file), mapping[e][key] + 12
                                            + SizeSum(h.key_size, h.value_size))
                   ELSE wpos[e]]
    /\ UNCHANGED <<exists, file, status, mapping, log, torn, codecVars>>

\* DiskStorage.get(key)
Get(e, key) ==
    /\ status[e] \in {"ready", "closed"}
    /\ LET r == get(mapping[e], file, key) IN
       last' = Call("get", e, key, r.ok, r.val)
    /\ UNCHANGED <<exists, file, status, mapping, wpos, log, torn, codecVars>>

\* DiskStorage.close()
Close(e) ==
    /\ status[e] \in {"ready", "closed"}
    /\ status' = [status EXCEPT ![e] = "closed"]
    /\ last' = Call("close", e, <<>>, TRUE, <<>>)
    /\ UNCHANGED <<exists, file, mapping, wpos, log, torn, codecVars>>

\* the bytes of the records recs, one after the other
RECURSIVE EncodeAll(_)
EncodeAll(recs) ==
    IF recs = <<>> THEN <<>>
    ELSE encode_kv(Head(recs).timestamp, Head(recs).key, Head(recs).value).buf
         \o EncodeAll(Tail(recs))

\* the process dies inside set's write: only the first n bytes of the record
\* (at least one, not all) have reached the file
CrashInSet(e, key, value, timestamp, n) ==
    /\ status[e] = "ready"
    /\ Len(torn) < MaxCrashes
    /\ LET enc == encode_kv(timestamp, key, value) IN
       /\ enc.ok
       /\ n \in 1..(enc.size - 1)
       /\ file' = writer_write(file, SubSeq(enc.buf, 1, n))
       /\ torn' = Append(torn, [off |-> Len(file), len |-> n])
    /\ status' = [status EXCEPT ![e] = "dead"]
    /\ last' = Call("crash", e, <<>>, FALSE, <<>>)
    /\ UNCHANGED <<exists, mapping, wpos, log, codecVars>>

\* the supported contract: no other instance has the file open for writing
SoleWriter(e) == \A o \in Engines \ {e} : status[o] # "ready"

NoCodec ==
    /\ cpc = "off"
    /\ cin = [timestamp |-> 0, key |-> <<>>, value |-> <<>>]
    /\ cbuf = [ok |-> FALSE, size |-> 0, buf |-> <<>>]
    /\ cout = DecodeError

NoEngine ==
    /\ exists = FALSE
    /\ file = <<>>
    /\ status = [e \in Engines |-> "uninit"]
    /\ mapping = [e \in Engines |-> EmptyMap]
    /\ wpos = [e \in Engines |-> 0]
    /\ last = Call("none", 0, <<>>, TRUE, <<>>)
    /\ log = <<>>
    /\ torn = <<>>

Init == NoEngine /\ NoCodec

\* no record of Keys and Values is longer: a header, 4 bytes of key, 4 of value
MaxRecordLen == HEADER_SIZE + 4 + 4

Next ==
    \/ \E e \in Engines : SoleWriter(e) /\ Open(e)
    \/ \E e \in Engines, k \in Keys, v \in Values, t \in Clock : Set(e, k, v, t)
    \/ \E e \in Engines, k \in Keys : Get(e, k)
    \/ \E e \in Engines : Close(e)
    \/ \E e \in Engines, k \in Keys, v \in Values, t \in Clock,
          n \in 1..MaxRecordLen : CrashInSet(e, k, v, t, n)

Spec == Init /\ [][Next]_vars

\* something outside the engine cuts the file to its first n bytes; the index
\* and the writer of every instance stay as they are. (Once in a run: the file
\* is still all the records written.)
Truncate(n) ==
    /\ exists
    /\ n < Len(file)
    /\ file = EncodeAll(log)
    /\ file' = SubSeq(file, 1, n)
    /\ last' = Call("truncate", 0, <<>>, TRUE, <<>>)
    /\ UNCHANGED <<exists, status, mapping, wpos, log, torn, codecVars>>

TruncNext ==
    \/ \E e \in Engines : SoleWriter(e) /\ Open(e)
    \/ \E e \in Engines, k \in Keys, v \in Values, t \in Clock : Set(e, k, v, t)
    \/ \E e \in Engines, k \in Keys : Get(e, k)
    \/ \E e \in Engines : Close(e)
    \/ \E n \in 0..(MaxSets * MaxRecordLen) : Truncate(n)

TruncSpec == Init /\ [][TruncNext]_vars

\* outside the supported contract: any number of instances open on the file
MultiNext ==
    \/ \E e \in Engines : Open(e)
    \/ \E e \in Engines, k \in Keys, v \in Values, t \in Clock : Set(e, k, v, t)
    \/ \E e \in Engines, k \in Keys : Get(e, k)
    \/ \E e \in Engines : Close(e)

MultiSpec == Init /\ [][MultiNext]_vars

-----------------------------------------------------------------------------
(* the codec on its own: encode_kv, then decode_kv of its bytes *)

Strs == UNION {[1..n -> CodePoints] : n \in 0..MaxStrLen}

\* (0, "ab", "cde")
Examples == {[timestamp |-> 0, key |-> <<97, 98>>, value |-> <<99, 100, 101>>]}

CodecInit ==
    /\ NoEngine
    /\ cpc = "in"
    /\ cin \in [timestamp : Timestamps, key : Strs, value : Strs] \cup Examples
    /\ cbuf = [ok |-> FALSE, size |-> 0, buf |-> <<>>]
    /\ cout = DecodeError

engineVars == <<exists, file, status, mapping, wpos, last, log, torn>>

Encode ==
    /\ cpc = "in"
    /\ cbuf' = encode_kv(cin.timestamp, cin.key, cin.value)
    /\ cpc' = "encoded"
    /\ UNCHANGED <<cin, cout, engineVars>>

Decode ==
    /\ cpc = "encoded"
    /\ cbuf.ok
    /\ cout' = decode_kv(cbuf.buf)
    /\ cpc' = "decoded"
    /\ UNCHANGED <<cin, cbuf, engineVars>>

CodecNext == Encode \/ Decode

CodecSpec == CodecInit /\ [][CodecNext]_vars

-----------------------------------------------------------------------------
(* encode_kv given any int as timestamp *)

\* ints below the range of an "I" field (those above it, from 2^32, are beyond
\* the integers of TLC)
Negatives == {-1, -256, -2147483647}

RangeInit ==
    /\ NoEngine
    /\ cpc = "in"
    /\ cin \in [timestamp : Timestamps \cup Negatives, key : Strs, value : Strs]
    /\ cbuf = [ok |-> FALSE, size |-> 0, buf |-> <<>>]
    /\ cout = DecodeError

RangeSpec == RangeInit /\ [][CodecNext]_vars

-----------------------------------------------------------------------------
(* decode_kv on its own: given a record, a record cut short, or a record with *)
(* bytes after it                                                            *)

\* the first n bytes of b, or b and n - Len(b) more bytes pad
Resize(b, n, pad) ==
    IF n <= Len(b) THEN SubSeq(b, 1, n) ELSE b \o [i \in 1..(n - Len(b)) |-> pad]

\* decode_kv's argument: cbuf.size remembers the length of the whole record
DecodeInit ==
    /\ NoEngine
    /\ cpc = "buf"
    /\ cin \in [timestamp : {16909060}, key : Strs, value : Strs] \cup Examples
    /\ \E n \in 0..(HEADER_SIZE + 8 * MaxStrLen + 2), pad \in {0, 97} :
          LET enc == encode_kv(cin.timestamp, cin.key, cin.value) IN
          /\ n <= enc.size + 2
          /\ cbuf = [ok |-> TRUE, size |-> enc.size, buf |-> Resize(enc.buf, n, pad)]
    /\ cout = DecodeError

DecodeBuf ==
    /\ cpc = "buf"
    /\ cout' = decode_kv(cbuf.buf)
    /\ cpc' = "tried"
    /\ UNCHANGED <<cin, cbuf, engineVars>>

DecodeNext == DecodeBuf

DecodeSpec == DecodeInit /\ [][DecodeNext]_vars

-----------------------------------------------------------------------------
(* The history the properties speak of *)

MaxOf(S) == CHOOSE x \in S : \A y \in S : y <= x

\* the positions in the log of the records instance e wrote for key k
OwnIdx(e, k) == {i \in 1..Len(log) : log[i].e = e /\ log[i].key = k}

\* the positions in the log of the records any instance wrote for key k
KeyIdx(k) == {i \in 1..Len(log) : log[i].key = k}

LogKeys == {log[i].key : i \in 1..Len(log)}

\* key -> start offset of the last record written for it
LatestOffsets == [k \in LogKeys |-> log[MaxOf(KeyIdx(k))].off]

\* the file is the concatenation of the complete records written so far
CleanLog == file = EncodeAll(log)

\* the file is the complete records written so far and then TailLen more bytes
TailLen == Len(file) - Len(EncodeAll(log))

\* (the bytes a crash left lie after every record)
CleanLogThenTail ==
    /\ TailLen > 0
    /\ IsPrefix(EncodeAll(log), file)
    /\ \A i \in 1..Len(torn) : torn[i].off >= Len(EncodeAll(log))

\* instance e is the one made last
Newest(e) == e = MaxEngines \/ status[e + 1] = "uninit"

-----------------------------------------------------------------------------
(* Properties *)

\* C1: on a Ready engine, a Get of a key this engine has Set returns, without
\* error, the value of the engine's most recent Set of that key.
C1_WriteThenRead ==
    (last.op = "get" /\ status[last.e] = "ready" /\ OwnIdx(last.e, last.key) # {})
        => (last.ok /\ last.val = log[MaxOf(OwnIdx(last.e, last.key))].value)

\* a Get has returned the second of two different values Set for its key
C1_Witness ==
    /\ last.op = "get"
    /\ status[last.e] = "ready"
    /\ \E i, j \in OwnIdx(last.e, last.key) :
          i < j /\ log[i].value # log[j].value /\ last.val = log[j].value

\* C2: when an engine has been closed, the next engine made on the same path is
\* constructed without error, and its Get of a key the closed engine Set returns
\* the last value Set for it (until the new engine Sets that key itself).
C2_DurabilityAcrossReopen ==
    LET e == last.e IN
    (e \in Engines /\ e > 1 /\ status[e - 1] = "closed" /\ Newest(e))
        => /\ last.op = "open" => last.ok
           /\ (last.op = "get" /\ OwnIdx(e - 1, last.key) # {})
                 => (last.ok /\ last.val = log[MaxOf(KeyIdx(last.key))].value)

\* C3: a Get of a key that is not in the index returns "" without error; while
\* the file is empty every Get does.
C3_MissingKey ==
    last.op = "get"
        => /\ last.key \notin DOMAIN mapping[last.e] => (last.ok /\ last.val = <<>>)
           /\ file = <<>> => (last.ok /\ last.val = <<>>)

\* a Get missed a key on an engine whose index holds another key
C3_Witness ==
    /\ last.op = "get"
    /\ last.key \notin DOMAIN mapping[last.e]
    /\ DOMAIN mapping[last.e] # {}
    /\ last.val = <<>>

\* C4: the index of the engine in use maps each of its keys to the start of a
\* complete record with that key, the last one written for the key; a Set has
\* put its key at the file length before its write.
C4_IndexInvariant ==
    /\ \A e \in Engines :
          (status[e] \in {"ready", "closed"} /\ Newest(e)) =>
             \A k \in DOMAIN mapping[e] :
                /\ k \in LogKeys
                /\ mapping[e][k] = LatestOffsets[k]
                /\ LET h == read_serialised_header(file, mapping[e][k]) IN
                   /\ ~h.none
                   /\ decode_kv(h.header_buf \o read(file, mapping[e][k] + 12,
                                   SizeSum(h.key_size, h.value_size))).key = k
    /\ (last.op = "set" /\ last.ok) =>
          /\ mapping[last.e][last.key] = log[Len(log)].off
          /\ log[Len(log)].off + Len(encode_kv(log[Len(log)].timestamp, last.key,
                                              last.val).buf) = Len(file)

\* C5: every step leaves the earlier file a prefix of the file and, once there,
\* the file stays; a Set appends exactly its record, at an offset larger than
\* that of every record written before, and that offset is the one it indexes.
C5_AppendOnly ==
    [][/\ IsPrefix(file, file')
       /\ exists => exists'
       /\ Len(log') > Len(log) =>
             LET r == log'[Len(log')] IN
             /\ log' = Append(log, r)
             /\ mapping'[r.e][r.key] = Len(file)
             /\ file' = file \o encode_kv(r.timestamp, r.key, r.value).buf
             /\ \A i \in 1..Len(log) : log[i].off < mapping'[r.e][r.key]
             /\ \A k \in DOMAIN mapping[r.e] : mapping[r.e][k] < mapping'[r.e][r.key]
      ]_vars

\* two records have been written, the second by an engine made after the first
\* was closed
C5_Witness ==
    /\ Len(log) = 2
    /\ log[1].e # log[2].e
    /\ log[2].off = Len(encode_kv(log[1].timestamp, log[1].key, log[1].value).buf)

\* C6: made on a file that is a concatenation of complete records, an engine
\* is constructed without error, its index has exactly the keys of the records,
\* each at the start offset of the last record with that key, and its writer
\* is at the end of the file.
C6_IndexRebuild ==
    (last.op = "open" /\ exists /\ CleanLog)
        => /\ last.ok
           /\ mapping[last.e] = LatestOffsets
           /\ wpos[last.e] = Len(file)

\* an engine was made on a file of two records with the same key
C6_Witness ==
    /\ last.op = "open"
    /\ CleanLog
    /\ Len(log) = 2
    /\ log[1].key = log[2].key
    /\ mapping[last.e][log[1].key] = log[2].off
    /\ log[2].off > 0

\* C7: made on a file that is complete records followed by 1 to 11 more bytes,
\* an engine is constructed without error and its index is that of the
\* complete records.
C7_DanglingTail ==
    (last.op = "open" /\ CleanLogThenTail /\ TailLen < HEADER_SIZE)
        => (last.ok /\ mapping[last.e] = LatestOffsets)

\* an engine was made on a record followed by 11 dangling bytes
C7_Witness ==
    /\ last.op = "open"
    /\ last.ok
    /\ CleanLogThenTail
    /\ TailLen = 11
    /\ Len(log) > 0

\* the file is the complete records and then the one partial record a crash left
PartialLast ==
    /\ Len(torn) = 1
    /\ torn[1].off = Len(EncodeAll(log))
    /\ torn[1].off + torn[1].len = Len(file)
    /\ CleanLogThenTail

\* C8 as stated: made on a file that ends in a partial record, of any length,
\* an engine is constructed without error and its index is that of the complete
\* records before it.
C8_PartialRecordDiscarded ==
    (last.op = "open" /\ PartialLast)
        => (last.ok /\ mapping[last.e] = LatestOffsets)

\* C8 amended: a partial last record shorter than the 12-byte header is
\* discarded silently, the index being that of the complete records before it;
\* one of 12 bytes or more (a whole header, not the whole key and value) makes
\* the construction fail.
C8_PartialRecord ==
    (last.op = "open" /\ PartialLast)
        => IF torn[1].len < HEADER_SIZE
           THEN last.ok /\ mapping[last.e] = LatestOffsets
           ELSE ~last.ok /\ status[last.e] = "failed"

\* the construction failed on a record followed by a partial record of a whole
\* header and part of the body
C8_Witness ==
    /\ last.op = "open"
    /\ PartialLast
    /\ torn[1].len > HEADER_SIZE
    /\ Len(log) > 0
    /\ ~last.ok

\* C9: on the engine in use, once closed, a Get returns without error the value
\* of the most recent Set of its key, or "" if the key was never Set.
C9_GetAfterClose ==
    (last.op = "get" /\ status[last.e] = "closed" /\ Newest(last.e))
        => /\ last.ok
           /\ last.val = IF last.key \in LogKeys
                         THEN log[MaxOf(KeyIdx(last.key))].value
                         ELSE <<>>

\* C10: decode_kv of the bytes of encode_kv(timestamp, key, value) is
\* (timestamp, key, value), and neither fails.
C10_RoundTrip ==
    /\ cpc = "encoded" => cbuf.ok
    /\ cpc = "decoded" =>
          /\ cout.ok
          /\ cout.timestamp = cin.timestamp
          /\ cout.key = cin.key
          /\ cout.value = cin.value

\* a record with the largest timestamp, a 4-byte key and the empty value has
\* been encoded and decoded
C10_Witness ==
    /\ cpc = "decoded"
    /\ cin.timestamp = 2147483647
    /\ cin.key = <<128512>>
    /\ cin.value = <<>>
    /\ cout.key = <<128512>>

\* the unsigned integer whose big-endian bytes are d[i] .. d[i + 3]
BigEndian(d, i) == d[i] * 16777216 + d[i + 1] * 65536 + d[i + 2] * 256 + d[i + 3]

\* C11: the bytes of encode_kv(timestamp, key, value) are 12 + |key bytes| +
\* |value bytes| long: three big-endian unsigned 32-bit fields (timestamp,
\* byte length of the key, byte length of the value), then the key bytes, then
\* the value bytes; the length returned is the length of the bytes.
C11_RecordLayout ==
    cpc # "in" =>
        LET buf == cbuf.buf
            key_bytes == Utf8Encode(cin.key)
            value_bytes == Utf8Encode(cin.value)
        IN /\ cbuf.ok
           /\ cbuf.size = Len(buf)
           /\ Len(buf) = 12 + Len(key_bytes) + Len(value_bytes)
           /\ \A i \in 1..Len(buf) : buf[i] \in 0..255
           /\ BigEndian(buf, 1) = cin.timestamp
           /\ BigEndian(buf, 5) = Len(key_bytes)
           /\ BigEndian(buf, 9) = Len(value_bytes)
           /\ SubSeq(buf, 13, 12 + Len(key_bytes)) = key_bytes
           /\ SubSeq(buf, 13 + Len(key_bytes), Len(buf)) = value_bytes

\* (0, "ab", "cde") has been encoded: header fields (0, 2, 3), "ab", "cde"
C11_Witness ==
    /\ cpc = "encoded"
    /\ cin \in Examples
    /\ cbuf.size = 17
    /\ cbuf.buf = <<0, 0, 0, 0, 0, 0, 0, 2, 0, 0, 0, 3, 97, 98, 99, 100, 101>>

\* C12: decode_kv returns a (timestamp, key, value) only for a buffer of 12
\* bytes or more whose length is exactly 12 + key_size + value_size, the sizes
\* being the second and third fields of its first 12 bytes; for a buffer
\* shorter than 12 bytes, shorter than that length or longer, it fails.
C12_DecodeLengthExact ==
    cpc = "tried" =>
        LET buf == cbuf.buf
            exact == /\ Len(buf) >= 12
                     /\ Len(buf) = 12 + BigEndian(buf, 5) + BigEndian(buf, 9)
        IN /\ cout.ok => exact
           /\ ~exact => cout = DecodeError
           /\ Len(buf) # cbuf.size => cout = DecodeError

\* decode_kv has failed on a record of a 4-byte key followed by one more byte
C12_Witness ==
    /\ cpc = "tried"
    /\ cin.key = <<128512>>
    /\ Len(cbuf.buf) = cbuf.size + 1
    /\ cbuf.size > HEADER_SIZE
    /\ ~cout.ok

TwoWriters ==
    /\ Len(log) = 2
    /\ log[1].e # log[2].e
    /\ log[2].e \in log[1].open

\* C14 as stated: after the two Sets one of the instances holds, for the key it
\* Set, an offset that is not the start of the record it wrote, and its Get of
\* that key does not return the value it Set.
C14_TwoWritersCorrupt ==
    (TwoWriters /\ last.op = "get" /\ last.e = log[2].e /\ last.key = log[2].key) =>
        \/ /\ mapping[log[2].e][log[2].key] # log[2].off
           /\ ~(last.ok /\ last.val = log[2].value)
        \/ /\ mapping[log[1].e][log[1].key] # log[1].off
           /\ get(mapping[log[1].e], file, log[1].key).val # log[1].value

\* C14 amended: after the two Sets the index of B holds, for the key B Set, the
\* start of the record A wrote and not of the one B wrote, and B's Get of that
\* key returns the value A Set (the value B Set only if the two are equal); the
\* index of A holds the start of A's record.
C14_TwoWriters ==
    TwoWriters =>
        /\ mapping[log[2].e][log[2].key] # log[2].off
        /\ mapping[log[2].e][log[2].key] = log[1].off
        /\ mapping[log[1].e][log[1].key] = log[1].off
        /\ (last.op = "get" /\ last.e = log[2].e /\ last.key = log[2].key)
              => (last.ok /\ last.val = log[1].value)

\* B has Set a key to the euro sign and its Get of the key returned the "" that
\* A Set for another key
C14_Witness ==
    /\ TwoWriters
    /\ last.op = "get"
    /\ last.e = log[2].e
    /\ last.key = log[2].key
    /\ log[1].key # log[2].key
    /\ log[2].value = <<8364>>
    /\ last.ok
    /\ last.val = <<>>

\* C15: when an engine has been made on the file (which may end in a dangling
\* tail of 1 to 11 bytes), has Set any number of times and has been closed, the
\* next engine on the path is constructed without error and its index is that
\* of the closed engine, key for key and offset for offset.
C15_ReopenEquivalence ==
    (last.op = "open" /\ last.e > 1 /\ status[last.e - 1] = "closed")
        => (last.ok /\ mapping[last.e] = mapping[last.e - 1])

\* C16 as stated: a log file that was absent exists only once a Set has
\* written to it; making the engine does not create it.
C16_CreatedByFirstSet ==
    exists => (log # <<>> \/ torn # <<>>)

\* C16 amended: a log file that was absent is created, empty, by making the
\* first engine, which succeeds; it exists from then on, before any Set, and
\* stays empty until the first Set writes to it.
C16_CreatedByInit ==
    /\ exists <=> status[1] # "uninit"
    /\ (last.op = "open" /\ last.e = 1) => (last.ok /\ status[1] = "ready")
    /\ (log = <<>> /\ torn = <<>>) => file = <<>>

\* the first engine has been made on an absent file and has not Set: the file
\* exists and is empty
C16_Witness ==
    /\ last.op = "open"
    /\ last.e = 1
    /\ exists
    /\ file = <<>>
    /\ log = <<>>
    /\ torn = <<>>

\* C17: a Set that fails (the engine is closed, or the record cannot be
\* encoded) leaves the file, every index and every write position as they
\* were; a closed engine stays closed whatever is called, and every Set on it
\* fails.
C17_FailedSetAtomic ==
    [][/\ (last'.op = "set" /\ ~last'.ok) =>
             /\ file' = file
             /\ exists' = exists
             /\ mapping' = mapping
             /\ wpos' = wpos
             /\ status' = status
       /\ \A e \in Engines :
             status[e] = "closed" =>
                /\ status'[e] = "closed"
                /\ mapping'[e] = mapping[e]
                /\ (last'.op = "set" /\ last'.e = e) => ~last'.ok
      ]_vars

\* a Set has failed on a closed engine that had Set before
C17_Witness ==
    /\ last.op = "set"
    /\ ~last.ok
    /\ status[last.e] = "closed"
    /\ DOMAIN mapping[last.e] # {}
    /\ \E i \in 1..Len(log) : log[i].e = last.e

\* the file has been cut and nothing has been appended since: it is a proper
\* prefix of the records written
Truncated ==
    /\ Len(file) < Len(EncodeAll(log))
    /\ IsPrefix(file, EncodeAll(log))

\* the index of e holds for k the start of a record of k that the file no
\* longer holds whole
RecordCut(e, k) ==
    /\ k \in DOMAIN mapping[e]
    /\ \E i \in 1..Len(log) :
          /\ log[i].key = k
          /\ log[i].off = mapping[e][k]
          /\ Len(file) < log[i].off
                + Len(encode_kv(log[i].timestamp, log[i].key, log[i].value).buf)

\* fewer than 12 bytes are left at offset off, or fewer after them than the
\* sizes in those 12 bytes add up to
BytesShort(off) ==
    \/ Len(file) - off < 12
    \/ Len(file) - off - 12 < SizeSum(unpack_u32(file, off + 5), unpack_u32(file, off + 9))

\* C18: when the file has been truncated so that the record the index holds
\* for a key is no longer whole in it (fewer than 12 bytes at the offset, or
\* fewer body bytes than key_size + value_size), a Get of the key fails and
\* returns no value.
C18_StaleOffsetFatal ==
    (last.op = "get" /\ last.key \in DOMAIN mapping[last.e]) =>
        /\ (Truncated /\ RecordCut(last.e, last.key)) => (~last.ok /\ last.val = <<>>)
        /\ BytesShort(mapping[last.e][last.key]) => (~last.ok /\ last.val = <<>>)

\* a Get has failed on a key whose record has its 12 header bytes left in the
\* file and not all of its body
C18_Witness ==
    /\ last.op = "get"
    /\ ~last.ok
    /\ Truncated
    /\ RecordCut(last.e, last.key)
    /\ mapping[last.e][last.key] > 0
    /\ Len(file) >= mapping[last.e][last.key] + HEADER_SIZE

\* C19: a Get, of a key in the index or not, leaves the bytes of the file, the
\* index and the write position of every engine, and the state of every
\* engine, as they were.
C19_GetReadOnly ==
    [][last'.op = "get" =>
          /\ file' = file
          /\ exists' = exists
          /\ mapping' = mapping
          /\ wpos' = wpos
          /\ status' = status
          /\ log' = log
      ]_vars

\* a Get has returned the value of the first of two records, the writer
\* standing at the end of the second
C19_Witness ==
    /\ last.op = "get"
    /\ last.ok
    /\ last.val = <<8364>>
    /\ Len(log) = 2
    /\ last.key \in DOMAIN mapping[last.e]
    /\ mapping[last.e][last.key] = log[1].off
    /\ wpos[last.e] = Len(file)

\* C20: on the engine in use, a Get of a key that was never Set and a Get of a
\* key whose last Set stored "" both return "" without error.
C20_EmptyValueAmbiguity ==
    (last.op = "get" /\ Newest(last.e)) =>
        /\ last.key \notin LogKeys => (last.ok /\ last.val = <<>>)
        /\ (last.key \in LogKeys /\ log[MaxOf(KeyIdx(last.key))].value = <<>>)
              => (last.ok /\ last.val = <<>>)

====
